---- MODULE Spec2Model ----
(***************************************************************************)
(* A model of app.py, the network health checker: the probe                *)
(* (check_host_health), the two SQLite tables (monitored_hosts and         *)
(* health_checks), the request handlers api_health_check, api_add_host     *)
(* and api_stats, and the background_monitor loop.                         *)
(*                                                                         *)
(* Strings are sequences of one-character strings, so that startswith,     *)
(* strip and concatenation are computed as Python computes them.           *)
(* None is the empty sequence and a present value v is <<v>>.              *)
(* Elapsed time is an integer number of microseconds; a reported           *)
(* response_time is an integer number of hundredths of a millisecond       *)
(* (round(ms, 2)).                                                         *)
(***************************************************************************)
EXTENDS Integers, Sequences, FiniteSets, TLC

VARIABLES monitored_hosts, health_checks, batch, adds, sched, probe, norm, stats,
          order

vars == <<monitored_hosts, health_checks, batch, adds, sched, probe, norm, stats,
          order>>

----------------------------------------------------------------------------
(* Bounds of the model *)

\* how many entries of DEFAULT_HOSTS the model keeps
NumDefaults == 2
\* how many rows health_checks can hold before the store reports it is full
\* (under SpecFresh: how many of its newest rows the state keeps)
MaxHistory == 2
\* how many api_health_check requests are served
NumBatches == 1
\* how many api_add_host requests are served
NumAdds == 2
\* how many rows health_checks holds when /api/stats is asked
MaxStatRows == 3

----------------------------------------------------------------------------
(* Python values *)

None == <<>>
Some(v) == <<v>>

HTTP == <<"h","t","t","p",":","/","/">>
HTTPS == <<"h","t","t","p","s",":","/","/">>
HTTPS_CAPS == <<"H","T","T","P","S",":","/","/">>

\* str.startswith(prefix)
StartsWith(s, p) == Len(s) >= Len(p) /\ SubSeq(s, 1, Len(p)) = p

HasProtocolHttpOnly(s) == StartsWith(s, HTTP)

\* host.startswith(('http://', 'https://'))
HasProtocol(s) == StartsWith(s, HTTP) \/ StartsWith(s, HTTPS)

\* the characters str.strip() removes
Whitespace == {" ", "\t", "\n"}

RECURSIVE LStrip(_)
LStrip(s) == IF s # <<>> /\ Head(s) \in Whitespace THEN LStrip(Tail(s)) ELSE s

RECURSIVE RStrip(_)
RStrip(s) ==
    IF s # <<>> /\ s[Len(s)] \in Whitespace
    THEN RStrip(SubSeq(s, 1, Len(s) - 1))
    ELSE s

\* str.strip()
Strip(s) == RStrip(LStrip(s))

\* the first index >= i of s holding one of the characters cs, or Len(s) + 1
RECURSIVE FindFrom(_, _, _)
FindFrom(s, cs, i) ==
    IF i > Len(s) THEN Len(s) + 1
    ELSE IF s[i] \in cs THEN i
    ELSE FindFrom(s, cs, i + 1)

\* urlparse(host).netloc of a host that starts with http:// or https://
Netloc(s) ==
    LET p == IF StartsWith(s, HTTPS) THEN Len(HTTPS) ELSE Len(HTTP)
    IN  SubSeq(s, p + 1, FindFrom(s, {"/", "?", "#"}, p + 1) - 1)

----------------------------------------------------------------------------
(* check_host_health *)

\* response_time < 500 is 'online'
OnlineBelowMs == 500
\* response_time < 2000 is 'slow'
SlowBelowMs == 2000
\* microseconds in a millisecond: (time.time() - start_time) * 1000
UsPerMs == 1000

HealthStates == {"online", "slow", "very_slow", "error", "timeout", "offline"}

\* round(response_time, 2): microseconds to hundredths of a millisecond, to
\* the nearest (no time the model draws lies halfway between two hundredths)
Round2(us) == (us + 5) \div 10

\* The outcomes of requests.get(host, timeout=10, allow_redirects=True): a
\* response with a status code after some elapsed time, or an exception.
Response(code, us) == [kind |-> "response", code |-> code, us |-> us, exc |-> "-"]
Raises(exc) == [kind |-> "raise", code |-> 0, us |-> 0, exc |-> exc]

\* except requests.exceptions.Timeout: ConnectTimeout is both a Timeout and
\* a ConnectionError, ReadTimeout only a Timeout
IsTimeout(exc) == exc \in {"ReadTimeout", "ConnectTimeout"}

\* except requests.exceptions.ConnectionError
IsConnectionError(exc) ==
    exc \in {"ConnectionError", "ConnectTimeout", "SSLError", "ProxyError"}

\* https:// put in front whatever the host starts with
EnsureProtocolAlways(host) == HTTPS \o host

\* the host the request is sent to and the result reports
EnsureProtocol(host) == IF ~HasProtocol(host) THEN HTTPS \o host ELSE host

ClassifyLE(code, us) ==
    IF code = 200
    THEN IF us <= OnlineBelowMs * UsPerMs THEN "online"
         ELSE IF us <= SlowBelowMs * UsPerMs THEN "slow"
         ELSE "very_slow"
    ELSE "error"

\* the status of a response
Classify(code, us) ==
    IF code = 200
    THEN IF us < OnlineBelowMs * UsPerMs THEN "online"
         ELSE IF us < SlowBelowMs * UsPerMs THEN "slow"
         ELSE "very_slow"
    ELSE "error"

Result(host, status, rt, code, msg) ==
    [host |-> host, status |-> status, response_time |-> rt,
     status_code |-> code, error_message |-> msg]

Returned(v) == [raised |-> FALSE, exc |-> "-", value |-> Some(v)]
Propagated(exc) == [raised |-> TRUE, exc |-> exc, value |-> None]

\* the dict the try block returns
OnResponse(host, net) ==
    Result(host, Classify(net.code, net.us), Some(Round2(net.us)),
           Some(net.code), None)

OnTimeout(host) ==
    Result(host, "timeout", None, None, Some("Request timeout (>10s)"))

OnConnectionError(host) ==
    Result(host, "offline", None, None, Some("Connection failed"))

\* except Exception as e: str(e)
OnException(host, exc) == Result(host, "error", None, None, Some(exc))

CheckHostHealthNoCatchAll(host0, net) ==
    LET host == EnsureProtocol(host0)
    IN  IF net.kind = "response" THEN Returned(OnResponse(host, net))
        ELSE IF IsTimeout(net.exc) THEN Returned(OnTimeout(host))
        ELSE IF IsConnectionError(net.exc) THEN Returned(OnConnectionError(host))
        ELSE Propagated(net.exc)

CheckHostHealthConnectionFirst(host0, net) ==
    LET host == EnsureProtocol(host0)
    IN  IF net.kind = "response" THEN Returned(OnResponse(host, net))
        ELSE IF IsConnectionError(net.exc) THEN Returned(OnConnectionError(host))
        ELSE IF IsTimeout(net.exc) THEN Returned(OnTimeout(host))
        ELSE Returned(OnException(host, net.exc))

CheckHostHealthErrorWithoutCode(host0, net) ==
    LET host == EnsureProtocol(host0)
    IN  IF net.kind = "response"
        THEN Returned(Result(host, Classify(net.code, net.us), Some(Round2(net.us)),
                             IF net.code = 200 THEN Some(net.code) ELSE None, None))
        ELSE IF IsTimeout(net.exc) THEN Returned(OnTimeout(host))
        ELSE IF IsConnectionError(net.exc) THEN Returned(OnConnectionError(host))
        ELSE Returned(OnException(host, net.exc))

\* check_host_health(host) when requests.get does `net`: the except clauses
\* are tried in the order they are written
CheckHostHealth(host0, net) ==
    LET host == EnsureProtocol(host0)
    IN  IF net.kind = "response" THEN Returned(OnResponse(host, net))
        ELSE IF IsTimeout(net.exc) THEN Returned(OnTimeout(host))
        ELSE IF IsConnectionError(net.exc) THEN Returned(OnConnectionError(host))
        ELSE Returned(OnException(host, net.exc))

----------------------------------------------------------------------------
(* The database: monitored_hosts and health_checks *)

DEFAULT_HOSTS_ALL ==
    << HTTPS \o <<"g","o","o","g","l","e",".","c","o","m">>,
       HTTPS \o <<"g","i","t","h","u","b",".","c","o","m">>,
       HTTPS \o <<"s","t","a","c","k","o","v","e","r","f","l","o","w",".","c","o","m">>,
       HTTPS \o <<"p","y","t","h","o","n",".","o","r","g">>,
       HTTPS \o <<"f","l","a","s","k",".","p","a","l","l","e","t","s","p","r","o","j","e","c","t","s",".","c","o","m">> >>

\* DEFAULT_HOSTS, cut to the first NumDefaults entries
DEFAULT_HOSTS == SubSeq(DEFAULT_HOSTS_ALL, 1, NumDefaults)

HostRow(host, display_name) ==
    [host |-> host, display_name |-> display_name, is_active |-> 1]

HasHostNever(rows, host) == FALSE

\* host TEXT UNIQUE: the default BINARY collation compares the bytes
HasHost(rows, host) == \E i \in 1..Len(rows) : rows[i].host = host

\* INSERT OR REPLACE in place of INSERT
InsertHostOrReplace(rows, host, display_name) ==
    IF HasHost(rows, host)
    THEN [exc |-> "-",
          rows |-> [i \in 1..Len(rows) |->
                       IF rows[i].host = host THEN HostRow(host, display_name)
                       ELSE rows[i]]]
    ELSE [exc |-> "-", rows |-> Append(rows, HostRow(host, display_name))]

\* INSERT INTO monitored_hosts (host, display_name): the new table, and
\* IntegrityError when the UNIQUE constraint refuses the row
InsertHost(rows, host, display_name) ==
    IF HasHost(rows, host)
    THEN [exc |-> "IntegrityError", rows |-> rows]
    ELSE [exc |-> "-", rows |-> Append(rows, HostRow(host, display_name))]

InsertAlways(rows, host, display_name) == Append(rows, HostRow(host, display_name))

\* INSERT OR IGNORE INTO monitored_hosts (host, display_name)
InsertOrIgnore(rows, host, display_name) ==
    IF HasHost(rows, host) THEN rows ELSE Append(rows, HostRow(host, display_name))

RECURSIVE InsertDefaultsFrom(_, _)
InsertDefaultsFrom(rows, i) ==
    IF i > Len(DEFAULT_HOSTS) THEN rows
    ELSE InsertDefaultsFrom(
             InsertOrIgnore(rows, DEFAULT_HOSTS[i], Some(Netloc(DEFAULT_HOSTS[i]))),
             i + 1)

\* add_default_hosts(): one transaction over the whole list
AddDefaultHosts(rows) == InsertDefaultsFrom(rows, 1)

\* SELECT host, display_name FROM monitored_hosts WHERE is_active = 1
SelectActive(rows) ==
    LET RECURSIVE Sel(_)
        Sel(i) ==
            IF i > Len(rows) THEN <<>>
            ELSE IF rows[i].is_active = 1
                 THEN <<[host |-> rows[i].host,
                         display_name |-> rows[i].display_name]>> \o Sel(i + 1)
                 ELSE Sel(i + 1)
    IN  Sel(1)

\* what get_monitored_hosts returns after seeding: the defaults themselves
DefaultSnapshot ==
    [i \in 1..Len(DEFAULT_HOSTS) |->
        [host |-> DEFAULT_HOSTS[i], display_name |-> Some(Netloc(DEFAULT_HOSTS[i]))]]

\* INSERT INTO health_checks (host, status, response_time, status_code,
\* error_message)
InsertHealthCheck(hist, result) ==
    Append(hist, [host |-> result.host, status |-> result.status,
                  response_time |-> result.response_time,
                  status_code |-> result.status_code,
                  error_message |-> result.error_message])

\* the store has room for one more row of health_checks
HistoryHasRoom == Len(health_checks) < MaxHistory

----------------------------------------------------------------------------
(* The environment *)

\* what requests.get does to a probe of a running batch or cycle
SysNet == { Response(200, 120000), Raises("ReadTimeout"),
            Raises("ConnectionError"), Raises("TooManyRedirects") }

\* what requests.get does to a probe checked on its own. timeout=10 bounds
\* each wait on the socket, not the whole request, so a response can take
\* longer than 10 s in all (12000000).
ProbeCodes == {200, 301, 404, 500}
ProbeTimes == {0, 120000, 499994, 499996, 499999, 500000, 500001, 1999994,
               1999999, 2000000, 2000004, 9999999, 12000000}
ProbeExcs == {"ReadTimeout", "ConnectTimeout", "ConnectionError", "SSLError",
              "ProxyError", "TooManyRedirects", "InvalidURL"}
ProbeNet ==
    {Response(c, us) : c \in ProbeCodes, us \in ProbeTimes}
        \cup {Raises(e) : e \in ProbeExcs}
ProbeHosts ==
    { DEFAULT_HOSTS_ALL[1], HTTP \o <<"a",".","b">>, <<"a",".","b">>,
      HTTPS_CAPS \o <<"a",".","b">>, HTTPS \o <<"a",".","b","/","x">> }

\* the JSON bodies posted to /api/add-host: host, and display_name or no
\* display_name key
EXAMPLE == <<"e","x","a","m","p","l","e",".","c","o","m">>
EXAMPLE_CAP == <<"E","x","a","m","p","l","e",".","c","o","m">>
Body(host, display_name) == [host |-> host, display_name |-> display_name]
AddBodies ==
    { Body(<<>>, None),
      Body(<<" ", " ">>, None),
      Body(EXAMPLE, None),
      Body(<<" ">> \o EXAMPLE \o <<"\n">>, None),
      Body(HTTPS \o EXAMPLE, Some(<<"E","x">>)),
      Body(HTTPS \o EXAMPLE_CAP, None),
      Body(HTTPS_CAPS \o EXAMPLE_CAP, None),
      Body(HTTP \o EXAMPLE \o <<"/","x">>, None),
      Body(DEFAULT_HOSTS_ALL[1], None) }

\* the bodies of the one add-host request that runs beside the batches or
\* beside the monitoring thread
FewBodies == { Body(EXAMPLE, None), Body(DEFAULT_HOSTS_ALL[1], None) }

Batches == 1..NumBatches
AddIds == 1..NumAdds

----------------------------------------------------------------------------
(* State *)

\* nets records what the network did to each probe of the request so far
NoRequest == [pc |-> "idle", hosts |-> <<>>, i |-> 1, result |-> None,
              results |-> <<>>, nets |-> <<>>, exc |-> "-", at |-> "-", total_hosts |-> None]

NoAdd == [pc |-> "idle", raw |-> <<>>, name |-> None, host |-> <<>>,
          display_name |-> None, status |-> 0, error |-> None, exc |-> "-"]

\* no normalisation is being followed, no /api/stats request is served
NoNorm == [pc |-> "off", x |-> <<>>, add |-> None, check |-> None,
           add_again |-> None, check_again |-> None]
NoStats == [pc |-> "off", out |-> [raised |-> FALSE, exc |-> "-", value |-> None]]

\* Bookkeeping, not program state: the order in which probes of the same host
\* completed. earlier holds <<p, q>> when p and q both hold a result of the
\* same host that is not saved yet and p's probe returned before q's;
\* overtaken holds p when a result q got after p's, for the same host, was
\* saved while p's was not.
NoOrder == [earlier |-> {}, overtaken |-> {}]

\* a request that failed with an uncaught exception: Flask answers 500
Uncaught(r, exc, at) == [r EXCEPT !.pc = "failed", !.exc = exc, !.at = at]

Init ==
    /\ monitored_hosts = <<>>
    /\ health_checks = <<>>
    /\ batch = [b \in Batches |-> NoRequest]
    /\ adds = [a \in AddIds |-> NoAdd]
    /\ sched = [pc |-> "off", hosts |-> <<>>, i |-> 1, result |-> None,
                exc |-> "-", at |-> "-", wait |-> 0, slept |-> 0]
    /\ probe = [pc |-> "off", host |-> <<>>, net |-> Raises("-"),
                out |-> Propagated("-")]
    /\ norm = NoNorm
    /\ stats = NoStats
    /\ order = NoOrder

----------------------------------------------------------------------------
(* The order in which probes complete *)

\* the monitoring thread, beside the requests 1..NumBatches
MONITOR == 0
Workers == Batches \cup {MONITOR}

\* worker p holds a result it has not saved yet, and the host of that result
Pending(p) == IF p = MONITOR THEN sched.pc = "save" ELSE batch[p].pc = "save"
PendingHost(p) ==
    IF p = MONITOR THEN sched.result[1].host ELSE batch[p].result[1].host

\* check_host_health has returned a result for `host` to worker `me`
ProbeCompleted(o, me, host) ==
    [o EXCEPT !.earlier =
        @ \cup { <<p, me>> : p \in { q \in Workers \ {me} :
                                       Pending(q) /\ PendingHost(q) = host } }]

\* save_health_check has committed the row of worker `me`
Saved(o, me) ==
    [earlier |-> { pr \in o.earlier : pr[1] # me /\ pr[2] # me },
     overtaken |-> (o.overtaken \cup { pr[1] : pr \in { x \in o.earlier : x[2] = me } })
                       \ {me}]

\* save_health_check has raised in worker `me`: its result is dropped
SaveFailed(o, me) ==
    [earlier |-> { pr \in o.earlier : pr[1] # me /\ pr[2] # me },
     overtaken |-> o.overtaken \ {me}]

----------------------------------------------------------------------------
(* get_monitored_hosts, as the two transactions it makes *)

\* after the SELECT: the rows, or the need to seed
AfterSelect(r, rows) ==
    IF SelectActive(rows) = <<>>
    THEN [r EXCEPT !.pc = "seed"]
    ELSE [r EXCEPT !.pc = "loop", !.hosts = SelectActive(rows), !.i = 1]

\* after add_default_hosts: the defaults are the snapshot
AfterSeed(r) == [r EXCEPT !.pc = "loop", !.hosts = DefaultSnapshot, !.i = 1]

----------------------------------------------------------------------------
(* api_health_check *)

BatchGetHosts(b) ==
    /\ batch[b].pc = "idle"
    /\ \E fault \in BOOLEAN :
         batch' = [batch EXCEPT ![b] =
            IF fault
            THEN Uncaught(@, "OperationalError", "get_monitored_hosts")
            ELSE AfterSelect(@, monitored_hosts)]
    /\ UNCHANGED <<monitored_hosts, health_checks, adds, sched, probe, norm, stats, order>>

BatchSeed(b) ==
    /\ batch[b].pc = "seed"
    /\ \E fault \in BOOLEAN :
         IF fault
         THEN /\ batch' = [batch EXCEPT ![b] =
                    Uncaught(@, "OperationalError", "add_default_hosts")]
              /\ UNCHANGED monitored_hosts
         ELSE /\ monitored_hosts' = AddDefaultHosts(monitored_hosts)
              /\ batch' = [batch EXCEPT ![b] = AfterSeed(@)]
    /\ UNCHANGED <<health_checks, adds, sched, probe, norm, stats, order>>

\* result['display_name'] = display_name
WithDisplayName(d, display_name) ==
    [host |-> d.host, status |-> d.status, response_time |-> d.response_time,
     status_code |-> d.status_code, error_message |-> d.error_message,
     display_name |-> display_name]

\* the loop is over when every host of the snapshot has been visited
LoopDoneEarly(r) == r.i >= Len(r.hosts)

LoopDone(r) == r.i > Len(r.hosts)

\* result = check_host_health(host); result['display_name'] = display_name
BatchProbe(b) ==
    /\ batch[b].pc = "loop"
    /\ ~LoopDone(batch[b])
    /\ \E net \in SysNet :
         LET h == batch[b].hosts[batch[b].i]
             out == CheckHostHealth(h.host, net)
         IN  /\ batch' = [batch EXCEPT ![b] =
                IF out.raised
                THEN Uncaught(@, out.exc, "check_host_health")
                ELSE [@ EXCEPT !.pc = "save", !.nets = Append(@, net),
                               !.result = Some(WithDisplayName(out.value[1],
                                                                h.display_name))]]
             /\ order' = IF out.raised THEN order
                         ELSE ProbeCompleted(order, b, out.value[1].host)
    /\ UNCHANGED <<monitored_hosts, health_checks, adds, sched, probe, norm, stats>>

\* results.append(result) ahead of save_health_check(result)
BatchSaveAppendFirst(b) ==
    /\ batch[b].pc = "save"
    /\ \E fault \in BOOLEAN :
         IF fault \/ ~HistoryHasRoom
         THEN /\ batch' = [batch EXCEPT ![b] =
                    Uncaught([@ EXCEPT !.results = Append(@, batch[b].result[1])],
                             "OperationalError", "save_health_check")]
              /\ UNCHANGED health_checks
              /\ order' = SaveFailed(order, b)
         ELSE /\ health_checks' =
                    InsertHealthCheck(health_checks, batch[b].result[1])
              /\ order' = Saved(order, b)
              /\ batch' = [batch EXCEPT ![b].pc = "loop",
                                        ![b].results = Append(@, batch[b].result[1]),
                                        ![b].result = None,
                                        ![b].i = @ + 1]
    /\ UNCHANGED <<monitored_hosts, adds, sched, probe, norm, stats>>

\* save_health_check(result); results.append(result)
BatchSave(b) ==
    /\ batch[b].pc = "save"
    /\ \E fault \in BOOLEAN :
         IF fault \/ ~HistoryHasRoom
         THEN /\ batch' = [batch EXCEPT ![b] =
                    Uncaught(@, "OperationalError", "save_health_check")]
              /\ UNCHANGED health_checks
              /\ order' = SaveFailed(order, b)
         ELSE /\ health_checks' =
                    InsertHealthCheck(health_checks, batch[b].result[1])
              /\ order' = Saved(order, b)
              /\ batch' = [batch EXCEPT ![b].pc = "loop",
                                        ![b].results = Append(@, batch[b].result[1]),
                                        ![b].result = None,
                                        ![b].i = @ + 1]
    /\ UNCHANGED <<monitored_hosts, adds, sched, probe, norm, stats>>

\* return jsonify({'results': results, ..., 'total_hosts': len(results)})
BatchRespond(b) ==
    /\ batch[b].pc = "loop"
    /\ LoopDone(batch[b])
    /\ batch' = [batch EXCEPT ![b].pc = "responded",
                              ![b].total_hosts = Some(Len(batch[b].results))]
    /\ UNCHANGED <<monitored_hosts, health_checks, adds, sched, probe, norm, stats, order>>

----------------------------------------------------------------------------
(* api_add_host *)

\* host = data.get('host', '').strip(), and the protocol if it is missing
NormalizeHost(raw) == EnsureProtocol(Strip(raw))

\* data.get('display_name', urlparse(host).netloc)
DisplayNameFor(name, host) == IF name = None THEN Some(Netloc(host)) ELSE name

Answer(r, status, error) == [r EXCEPT !.pc = "done", !.status = status, !.error = error]

\* a handler that failed with an uncaught exception: Flask answers 500
Fault(r, exc) == [r EXCEPT !.pc = "done", !.status = 500, !.exc = exc]

\* the request is parsed and validated, its body one of `bodies`
AddReceiveFrom(a, bodies) ==
    /\ adds[a].pc = "idle"
    /\ \E body \in bodies :
         LET raw == body.host
             name == body.display_name
         IN
         adds' = [adds EXCEPT ![a] =
            IF Strip(raw) = <<>>
            THEN Answer([@ EXCEPT !.raw = raw, !.name = name],
                        400, Some("Host is required"))
            ELSE [@ EXCEPT !.pc = "insert", !.raw = raw, !.name = name,
                           !.host = NormalizeHost(raw),
                           !.display_name =
                               DisplayNameFor(name, NormalizeHost(raw))]]
    /\ UNCHANGED <<monitored_hosts, health_checks, batch, sched, probe, norm, stats, order>>

AddReceive(a) == AddReceiveFrom(a, AddBodies)

\* the try block around the INSERT: except sqlite3.IntegrityError
AfterInsert(r, res) ==
    IF res.exc = "IntegrityError"
    THEN Answer(r, 400, Some("Host already exists"))
    ELSE Answer(r, 200, None)

\* the INSERT and its commit
AddInsert(a) ==
    /\ adds[a].pc = "insert"
    /\ \E fault \in BOOLEAN :
         IF fault
         THEN /\ adds' = [adds EXCEPT ![a] = Fault(@, "OperationalError")]
              /\ UNCHANGED monitored_hosts
         ELSE LET res == InsertHost(monitored_hosts, adds[a].host,
                                    adds[a].display_name)
              IN  /\ monitored_hosts' = res.rows
                  /\ adds' = [adds EXCEPT ![a] = AfterInsert(@, res)]
    /\ UNCHANGED <<health_checks, batch, sched, probe, norm, stats, order>>

----------------------------------------------------------------------------
(* background_monitor *)

\* time.sleep(300)
SleepAfterCycle == 300
\* time.sleep(60)
SleepAfterError == 60

CaughtLongSleep(s, exc, at) ==
    [s EXCEPT !.pc = "sleep", !.wait = SleepAfterCycle, !.exc = exc, !.at = at]

Escaped(s, exc, at) == [s EXCEPT !.pc = "terminated", !.exc = exc, !.at = at]

\* except Exception as e: the message is printed and the loop sleeps a minute
Caught(s, exc, at) ==
    [s EXCEPT !.pc = "sleep", !.wait = SleepAfterError, !.exc = exc, !.at = at]

\* the thread is started
SchedStart ==
    /\ sched.pc = "off"
    /\ sched' = [sched EXCEPT !.pc = "get_hosts"]
    /\ UNCHANGED <<monitored_hosts, health_checks, batch, adds, probe, norm, stats, order>>

SchedGetHosts ==
    /\ sched.pc = "get_hosts"
    /\ \E fault \in BOOLEAN :
         sched' = IF fault
                  THEN Caught(sched, "OperationalError", "get_monitored_hosts")
                  ELSE AfterSelect(sched, monitored_hosts)
    /\ UNCHANGED <<monitored_hosts, health_checks, batch, adds, probe, norm, stats, order>>

SchedSeed ==
    /\ sched.pc = "seed"
    /\ \E fault \in BOOLEAN :
         IF fault
         THEN /\ sched' = Caught(sched, "OperationalError", "add_default_hosts")
              /\ UNCHANGED monitored_hosts
         ELSE /\ monitored_hosts' = AddDefaultHosts(monitored_hosts)
              /\ sched' = AfterSeed(sched)
    /\ UNCHANGED <<health_checks, batch, adds, probe, norm, stats, order>>

SchedProbe ==
    /\ sched.pc = "loop"
    /\ ~LoopDone(sched)
    /\ \E net \in SysNet :
         LET out == CheckHostHealth(sched.hosts[sched.i].host, net)
         IN  /\ sched' = IF out.raised
                         THEN Caught(sched, out.exc, "check_host_health")
                         ELSE [sched EXCEPT !.pc = "save", !.result = out.value]
             /\ order' = IF out.raised THEN order
                         ELSE ProbeCompleted(order, MONITOR, out.value[1].host)
    /\ UNCHANGED <<monitored_hosts, health_checks, batch, adds, probe, norm, stats>>

SchedSave ==
    /\ sched.pc = "save"
    /\ \E fault \in BOOLEAN :
         IF fault \/ ~HistoryHasRoom
         THEN /\ sched' = Caught(sched, "OperationalError", "save_health_check")
              /\ UNCHANGED health_checks
              /\ order' = SaveFailed(order, MONITOR)
         ELSE /\ health_checks' = InsertHealthCheck(health_checks, sched.result[1])
              /\ sched' = [sched EXCEPT !.pc = "loop", !.result = None, !.i = @ + 1]
              /\ order' = Saved(order, MONITOR)
    /\ UNCHANGED <<monitored_hosts, batch, adds, probe, norm, stats>>

\* The table as a run without end needs it: the state keeps the newest
\* MaxHistory rows, the rows before them are in the table but no longer in
\* the state.
KeepRecent(hist) == IF Len(hist) > MaxHistory THEN Tail(hist) ELSE hist

\* save_health_check(result) in the loop, over a table that never fills
SchedSaveRecent ==
    /\ sched.pc = "save"
    /\ \E fault \in BOOLEAN :
         IF fault
         THEN /\ sched' = Caught(sched, "OperationalError", "save_health_check")
              /\ UNCHANGED health_checks
              /\ order' = SaveFailed(order, MONITOR)
         ELSE /\ health_checks' =
                    KeepRecent(InsertHealthCheck(health_checks, sched.result[1]))
              /\ sched' = [sched EXCEPT !.pc = "loop", !.result = None, !.i = @ + 1]
              /\ order' = Saved(order, MONITOR)
    /\ UNCHANGED <<monitored_hosts, batch, adds, probe, norm, stats>>

\* the for loop is over: time.sleep(300)
SchedSleep ==
    /\ sched.pc = "loop"
    /\ LoopDone(sched)
    /\ sched' = [sched EXCEPT !.pc = "sleep", !.wait = SleepAfterCycle]
    /\ UNCHANGED <<monitored_hosts, health_checks, batch, adds, probe, norm, stats, order>>

\* the next cycle goes over the hosts of the last one again
SchedWakeStale ==
    /\ sched.pc = "sleep"
    /\ sched' = [sched EXCEPT !.pc = "loop", !.i = 1,
                              !.result = None, !.exc = "-", !.at = "-",
                              !.wait = 0, !.slept = sched.wait]
    /\ UNCHANGED <<monitored_hosts, health_checks, batch, adds, probe, norm, stats, order>>

\* the sleep returns and while True starts the next cycle
SchedWake ==
    /\ sched.pc = "sleep"
    /\ sched' = [sched EXCEPT !.pc = "get_hosts", !.hosts = <<>>, !.i = 1,
                              !.result = None, !.exc = "-", !.at = "-",
                              !.wait = 0, !.slept = sched.wait]
    /\ UNCHANGED <<monitored_hosts, health_checks, batch, adds, probe, norm, stats, order>>

----------------------------------------------------------------------------
(* check_host_health on its own *)

InitProbe ==
    /\ monitored_hosts = <<>>
    /\ health_checks = <<>>
    /\ batch = [b \in Batches |-> NoRequest]
    /\ adds = [a \in AddIds |-> NoAdd]
    /\ sched = [pc |-> "off", hosts |-> <<>>, i |-> 1, result |-> None,
                exc |-> "-", at |-> "-", wait |-> 0, slept |-> 0]
    /\ \E h \in ProbeHosts, n \in ProbeNet :
         probe = [pc |-> "called", host |-> h, net |-> n, out |-> Propagated("-")]
    /\ norm = NoNorm
    /\ stats = NoStats
    /\ order = NoOrder

ProbeRun ==
    /\ probe.pc = "called"
    /\ probe' = [probe EXCEPT !.pc = "returned",
                              !.out = CheckHostHealth(probe.host, probe.net)]
    /\ UNCHANGED <<monitored_hosts, health_checks, batch, adds, sched, norm, stats, order>>

----------------------------------------------------------------------------
(* The two normalisations of a host on their own *)

\* the strings given to them: padding, a protocol or something like one, a
\* name, padding
NormPads == { <<>>, <<" ">>, <<"\n", " ">> }
NormProtocols == { <<>>, HTTP, HTTPS, HTTPS_CAPS, <<"h","t","t","p",":","/">>,
                   <<"f","t","p",":","/","/">> }
NormNames == { <<>>, <<"a",".","b">>, <<"a"," ","b">>, <<"\t">> }
NormInputs ==
    { l \o p \o n \o r : l \in NormPads, p \in NormProtocols,
                         n \in NormNames, r \in NormPads }

\* api_add_host's normalisation: no host when the trimmed string is empty
\* (the handler answers 400), else the trimmed string with its protocol
AddHostNormalize(raw) ==
    IF Strip(raw) = <<>> THEN None ELSE Some(NormalizeHost(raw))

InitNormalize ==
    /\ monitored_hosts = <<>>
    /\ health_checks = <<>>
    /\ batch = [b \in Batches |-> NoRequest]
    /\ adds = [a \in AddIds |-> NoAdd]
    /\ sched = [pc |-> "off", hosts |-> <<>>, i |-> 1, result |-> None,
                exc |-> "-", at |-> "-", wait |-> 0, slept |-> 0]
    /\ probe = [pc |-> "off", host |-> <<>>, net |-> Raises("-"),
                out |-> Propagated("-")]
    /\ \E x \in NormInputs : norm = [NoNorm EXCEPT !.pc = "input", !.x = x]
    /\ stats = NoStats
    /\ order = NoOrder

\* x goes through api_add_host's normalisation and through
\* check_host_health's
NormalizeOnce ==
    /\ norm.pc = "input"
    /\ norm' = [norm EXCEPT !.pc = "once",
                            !.add = AddHostNormalize(norm.x),
                            !.check = Some(EnsureProtocol(norm.x))]
    /\ UNCHANGED <<monitored_hosts, health_checks, batch, adds, sched, probe, stats, order>>

\* what came out goes through the same normalisation again
NormalizeAgain ==
    /\ norm.pc = "once"
    /\ norm' = [norm EXCEPT !.pc = "twice",
                            !.add_again = IF norm.add = None THEN None
                                          ELSE AddHostNormalize(norm.add[1]),
                            !.check_again = Some(EnsureProtocol(norm.check[1]))]
    /\ UNCHANGED <<monitored_hosts, health_checks, batch, adds, sched, probe, stats, order>>

----------------------------------------------------------------------------
(* api_stats on its own *)

\* datetime(timestamp) >= datetime('now', '-24 hours')
WindowHours == 24
\* percent: (online_count / total_checks) * 100
Percent == 100
\* round(x, 2): hundredths
Hundredths == 100

\* A row of health_checks as api_stats reads it. age is the number of hours
\* between the row's timestamp (CURRENT_TIMESTAMP at the INSERT) and 'now' at
\* the SELECT; the specifications of the rest of the program leave the
\* column out, nothing in them reads it.
StatsRow(status, response_time, status_code, age) ==
    [host |-> DEFAULT_HOSTS_ALL[1], status |-> status,
     response_time |-> response_time, status_code |-> status_code,
     error_message |-> None, age |-> age]

StatsRows ==
    { StatsRow("online", Some(12000), Some(200), 0),
      StatsRow("online", Some(12001), Some(200), 23),
      StatsRow("slow", Some(60000), Some(200), 24),
      StatsRow("error", Some(9000), Some(500), 2),
      StatsRow("timeout", None, None, 1),
      StatsRow("online", Some(10000), Some(200), 25),
      StatsRow("offline", None, None, 30) }

RECURSIVE StatsTables(_)
StatsTables(n) ==
    IF n = 0 THEN { <<>> }
    ELSE StatsTables(n - 1)
           \cup { Append(t, r) : t \in { u \in StatsTables(n - 1) : Len(u) = n - 1 },
                                 r \in StatsRows }

InWindow(row) == row.age <= WindowHours

\* SUM(CASE WHEN status = 'online' THEN 1 ELSE 0 END) over rows i..
RECURSIVE SumOnline(_, _)
SumOnline(rows, i) ==
    IF i > Len(rows) THEN 0
    ELSE (IF rows[i].status = "online" THEN 1 ELSE 0) + SumOnline(rows, i + 1)

\* the sum AVG takes over the rows whose response_time is not NULL, from
\* row i on, in hundredths of a millisecond
RECURSIVE SumTimes(_, _)
SumTimes(rows, i) ==
    IF i > Len(rows) THEN 0
    ELSE (IF rows[i].response_time = None THEN 0 ELSE rows[i].response_time[1])
           + SumTimes(rows, i + 1)

HasTime(row) == row.response_time # None

\* round(n / d, 2) of a quotient n / d given in hundredths: to the nearest
\* hundredth. A quotient halfway between two hundredths goes where the
\* binary float nearest to it lies, up or down.
RoundQuotient(n, d, up) ==
    LET q == n \div d
        r == n % d
    IN  IF 2 * r > d THEN q + 1
        ELSE IF 2 * r < d THEN q
        ELSE IF up THEN q + 1 ELSE q

StatsJson(total_checks, uptime_percentage, average_response_time) ==
    [total_checks |-> total_checks, uptime_percentage |-> uptime_percentage,
     average_response_time |-> average_response_time, period |-> "24 hours"]

\* without the test of total_checks: SUM over no row is NULL, None / 0
ApiStatsNoGuard(rows, up) ==
    LET win == SelectSeq(rows, InWindow)
        timed == SelectSeq(win, HasTime)
    IN  IF Len(win) = 0 THEN Propagated("TypeError")
        ELSE Returned(StatsJson(
                 Len(win),
                 RoundQuotient(SumOnline(win, 1) * Percent * Hundredths, Len(win), up),
                 IF Len(timed) = 0 THEN 0
                 ELSE RoundQuotient(SumTimes(timed, 1), Len(timed), up)))

\* api_stats over the table `rows`: percentages and milliseconds in
\* hundredths
ApiStats(rows, up) ==
    LET win == SelectSeq(rows, InWindow)
        total_checks == Len(win)
        online_count == SumOnline(win, 1)
        timed == SelectSeq(win, HasTime)
        uptime_percentage ==
            IF total_checks > 0
            THEN RoundQuotient(online_count * Percent * Hundredths, total_checks, up)
            ELSE 0
        \* avg_response_time or 0: AVG over no value is NULL
        average_response_time ==
            IF Len(timed) = 0 THEN 0
            ELSE RoundQuotient(SumTimes(timed, 1), Len(timed), up)
    IN  Returned(StatsJson(total_checks, uptime_percentage, average_response_time))

InitStats ==
    /\ monitored_hosts = <<>>
    /\ health_checks \in StatsTables(MaxStatRows)
    /\ batch = [b \in Batches |-> NoRequest]
    /\ adds = [a \in AddIds |-> NoAdd]
    /\ sched = [pc |-> "off", hosts |-> <<>>, i |-> 1, result |-> None,
                exc |-> "-", at |-> "-", wait |-> 0, slept |-> 0]
    /\ probe = [pc |-> "off", host |-> <<>>, net |-> Raises("-"),
                out |-> Propagated("-")]
    /\ norm = NoNorm
    /\ stats = [NoStats EXCEPT !.pc = "called"]
    /\ order = NoOrder

\* GET /api/stats
StatsRun ==
    /\ stats.pc = "called"
    /\ \E fault \in BOOLEAN, up \in BOOLEAN :
         stats' = [stats EXCEPT !.pc = "returned",
                                !.out = IF fault THEN Propagated("OperationalError")
                                        ELSE ApiStats(health_checks, up)]
    /\ UNCHANGED <<monitored_hosts, health_checks, batch, adds, sched, probe, norm, order>>

----------------------------------------------------------------------------
(* Specifications *)

BatchNext ==
    \E b \in Batches :
        \/ BatchGetHosts(b)
        \/ BatchSeed(b)
        \/ BatchProbe(b)
        \/ BatchSave(b)
        \/ BatchRespond(b)

AddNext == \E a \in AddIds : AddReceive(a) \/ AddInsert(a)

SchedNext ==
    \/ SchedStart
    \/ SchedGetHosts
    \/ SchedSeed
    \/ SchedProbe
    \/ SchedSave
    \/ SchedSleep
    \/ SchedWake

Next == BatchNext \/ AddNext

\* the program as __main__ starts it: the Flask routes, the monitoring
\* thread left commented out
Spec == Init /\ [][Next]_vars

\* get_monitored_hosts as a request calls it: the SELECT, then the seeding
SnapshotNext == \E b \in Batches : BatchGetHosts(b) \/ BatchSeed(b)

RegistryNext == AddNext \/ SnapshotNext

\* the writers of monitored_hosts: the add-host requests, over every body,
\* and the snapshots that seed the defaults
SpecRegistry == Init /\ [][RegistryNext]_vars

BatchesNext == BatchNext \/ AddReceiveFrom(1, FewBodies) \/ AddInsert(1)

\* the health-check requests, and one add-host request beside them
SpecBatch == Init /\ [][BatchesNext]_vars

\* the monitoring thread, and one add-host request beside it
MonitorNext == SchedNext \/ AddReceiveFrom(1, FewBodies) \/ AddInsert(1)

\* the program with the monitoring thread started: the loop is a thread of
\* its own, so it keeps being scheduled
SpecMonitor == Init /\ [][MonitorNext]_vars /\ WF_vars(SchedNext)

SeedingNext ==
    SchedNext \/ SnapshotNext \/ AddReceiveFrom(1, FewBodies) \/ AddInsert(1)

\* the callers of get_monitored_hosts side by side: the health-check
\* requests up to their snapshot, the monitoring thread cycle after cycle,
\* and one add-host request
SpecSeeding == Init /\ [][SeedingNext]_vars

\* the two normalisations alone, over every input string
SpecNormalize == InitNormalize /\ [][NormalizeOnce \/ NormalizeAgain]_vars

\* /api/stats alone, over every table of up to MaxStatRows rows
SpecStats == InitStats /\ [][StatsRun]_vars

SystemNext ==
    BatchNext \/ SchedNext \/ AddReceiveFrom(1, FewBodies) \/ AddInsert(1)

\* the program with the monitoring thread started: the health-check
\* requests, the monitoring thread and one add-host request side by side
SpecSystem == Init /\ [][SystemNext]_vars

\* the health-check requests and the monitoring thread side by side: their
\* probes and saves interleave
SpecOrder == Init /\ [][BatchNext \/ SchedNext]_vars

CycleNext ==
    \/ SchedStart
    \/ SchedGetHosts
    \/ SchedSeed
    \/ SchedProbe
    \/ SchedSaveRecent
    \/ SchedSleep
    \/ SchedWake

FreshNext == CycleNext \/ AddReceiveFrom(1, FewBodies) \/ AddInsert(1)

\* the monitoring thread running without end over a table that never fills,
\* and one add-host request beside it; the thread keeps being scheduled
SpecFresh == Init /\ [][FreshNext]_vars /\ WF_vars(CycleNext)

\* the probe alone, over every outcome of the network call
SpecProbe == InitProbe /\ [][ProbeRun]_vars

----------------------------------------------------------------------------
(* Properties of check_host_health, checked under SpecProbe *)

ProbeStatus == probe.out.value[1].status
ProbeReturned == probe.pc = "returned" /\ ~probe.out.raised

\* C1: check_host_health never propagates an exception: whatever the network
\* call does (a response, a timeout, a connection failure, any other
\* exception), the call returns a result whose status is one of the six
\* health states.
C1_NeverPropagates ==
    probe.pc = "returned" =>
        /\ ~probe.out.raised
        /\ probe.out.value # None
        /\ ProbeStatus \in HealthStates

\* an exception that is neither a timeout nor a connection error was raised
\* and came back as a result
C1_Witness ==
    /\ ProbeReturned
    /\ probe.net.kind = "raise"
    /\ probe.net.exc \in {"TooManyRedirects", "InvalidURL"}
    /\ ProbeStatus = "error"

\* C2: a response with status 200 is 'online' below 500 ms, 'slow' from 500 ms
\* to below 2000 ms and 'very_slow' from 2000 ms on; a response with any other
\* status is 'error' whatever the time (times in microseconds).
C2_Classification ==
    (ProbeReturned /\ probe.net.kind = "response") =>
        LET c == probe.net.code
            t == probe.net.us
        IN  /\ (c = 200 /\ t < 500000) => ProbeStatus = "online"
            /\ (c = 200 /\ 500000 <= t /\ t < 2000000) => ProbeStatus = "slow"
            /\ (c = 200 /\ t >= 2000000) => ProbeStatus = "very_slow"
            /\ c # 200 => ProbeStatus = "error"

\* the boundary of exactly 500 ms is 'slow'
C2_Witness ==
    /\ ProbeReturned
    /\ probe.net.kind = "response"
    /\ probe.net.code = 200
    /\ probe.net.us = 500000
    /\ ProbeStatus = "slow"

\* C9, as claimed: every result whose status is 'online', 'slow', 'very_slow'
\* or 'error' carries a status code.
C9_AlwaysStatusCode ==
    (ProbeReturned /\ ProbeStatus \in {"online", "slow", "very_slow", "error"})
        => probe.out.value[1].status_code # None

\* C9, amended: 'online', 'slow' and 'very_slow' always carry a status code;
\* 'error' carries one exactly when a response was received, and the 'error'
\* of the catch-all handler carries an error message and no status code.
C9_StatusCodeIffResponse ==
    ProbeReturned =>
        LET r == probe.out.value[1]
        IN  /\ r.status \in {"online", "slow", "very_slow"} => r.status_code # None
            /\ r.status = "error" =>
                   /\ r.status_code # None <=> probe.net.kind = "response"
                   /\ r.status_code = None => r.error_message # None
                   /\ r.status_code # None => r.error_message = None

\* the catch-all handler's 'error': no status code, an error message
C9_Witness ==
    /\ ProbeReturned
    /\ probe.net.kind = "raise"
    /\ ProbeStatus = "error"
    /\ probe.out.value[1].status_code = None
    /\ probe.out.value[1].error_message # None

----------------------------------------------------------------------------
(* Properties of api_health_check, checked under SpecBatch *)

\* the status a probe must get when the network call raised `exc`
ExpectedOnRaise(exc) ==
    IF exc = "ReadTimeout" THEN "timeout"
    ELSE IF exc = "ConnectionError" THEN "offline"
    ELSE "error"

\* C3: a batch over a snapshot of N hosts, some of which time out or fail to
\* connect, answers with exactly N entries, one per snapshot host in order,
\* and total_hosts = N; the entry of a host that timed out is 'timeout' and
\* that of a host that failed to connect is 'offline'; and no exception of a
\* probe leaves the batch: a batch fails only with the store's own error.
C3_BatchAbsorbsProbeFailures ==
    \A b \in Batches :
        LET r == batch[b]
        IN  /\ r.pc = "responded" =>
                   /\ Len(r.results) = Len(r.hosts)
                   /\ r.total_hosts = Some(Len(r.hosts))
                   /\ \A i \in 1..Len(r.hosts) :
                          /\ r.results[i].host = r.hosts[i].host
                          /\ r.results[i].display_name = r.hosts[i].display_name
                          /\ r.nets[i].kind = "raise" =>
                                 r.results[i].status = ExpectedOnRaise(r.nets[i].exc)
            /\ r.pc = "failed" =>
                   /\ r.at # "check_host_health"
                   /\ r.exc = "OperationalError"

\* a batch of two hosts answered in full although one host timed out and the
\* other failed to connect
C3_Witness ==
    \E b \in Batches :
        /\ batch[b].pc = "responded"
        /\ Len(batch[b].hosts) >= 2
        /\ batch[b].total_hosts = Some(Len(batch[b].hosts))
        /\ \E i, j \in 1..Len(batch[b].hosts) :
               /\ batch[b].nets[i] = Raises("ReadTimeout")
               /\ batch[b].results[i].status = "timeout"
               /\ batch[b].nets[j] = Raises("ConnectionError")
               /\ batch[b].results[j].status = "offline"

\* C4, as claimed: once get_monitored_hosts has returned, no later step (a
\* probe, the append of its outcome to the history) makes the batch fail.
C4_FailsOnlyAtSnapshot ==
    \A b \in Batches :
        batch[b].pc = "failed" =>
            batch[b].at \in {"get_monitored_hosts", "add_default_hosts"}

\* C4, amended: a batch fails only where it uses the database - while taking
\* the snapshot (the SELECT, the seeding of the defaults) or while appending
\* an outcome to the history - and never in a probe; a batch that answers
\* has as many entries as the snapshot has hosts, each of them saved.
C4_FailsOnlyInStore ==
    \A b \in Batches :
        LET r == batch[b]
        IN  /\ r.pc = "failed" =>
                   /\ r.at \in {"get_monitored_hosts", "add_default_hosts",
                                "save_health_check"}
                   /\ r.exc = "OperationalError"
                   /\ r.at = "save_health_check" => Len(r.results) = r.i - 1
            /\ r.pc = "responded" =>
                   /\ Len(r.results) = Len(r.hosts)
                   /\ Len(health_checks) >= Len(r.hosts)

\* the append of an outcome failed although the store had room, and the
\* batch failed after its snapshot was taken
C4_Witness ==
    \E b \in Batches :
        /\ batch[b].pc = "failed"
        /\ batch[b].at = "save_health_check"
        /\ batch[b].hosts # <<>>
        /\ HistoryHasRoom

----------------------------------------------------------------------------
(* Properties of api_add_host, checked under SpecRegistry *)

UPPER == <<"A","B","C","D","E","F","G","H","I","J","K","L","M",
           "N","O","P","Q","R","S","T","U","V","W","X","Y","Z">>
LOWER == <<"a","b","c","d","e","f","g","h","i","j","k","l","m",
           "n","o","p","q","r","s","t","u","v","w","x","y","z">>

\* str.lower()
LowerChar(c) ==
    IF \E k \in 1..Len(UPPER) : UPPER[k] = c
    THEN LOWER[CHOOSE k \in 1..Len(UPPER) : UPPER[k] = c]
    ELSE c
Lower(s) == [k \in 1..Len(s) |-> LowerChar(s[k])]

\* the key the registry is to compare hosts by: trimmed, lower-cased, with
\* https:// in front when no protocol is given
CaseInsensitiveKey(raw) ==
    LET t == Lower(Strip(raw))
    IN  IF HasProtocol(t) THEN t ELSE HTTPS \o t

AddDone(a) == adds[a].pc = "done"
AddPassed(a) == AddDone(a) /\ Strip(adds[a].raw) # <<>>
RowsWithHost(host) ==
    {i \in 1..Len(monitored_hosts) : monitored_hosts[i].host = host}

\* C7: duplicate detection is case-insensitive: an add whose host differs
\* only in case (of the protocol or of the domain) from a row the registry
\* holds is refused, so no successful add leaves the registry with another
\* row of the same key.
C7_CaseInsensitiveDuplicates ==
    \A a \in AddIds :
        (AddDone(a) /\ adds[a].status = 200) =>
            \A i \in 1..Len(monitored_hosts) :
                CaseInsensitiveKey(monitored_hosts[i].host)
                        = CaseInsensitiveKey(adds[a].raw)
                    => monitored_hosts[i].host = adds[a].host

\* C8: after any interleaving of add-host requests and default seeding no
\* two rows of monitored_hosts have the same address; at most one request per
\* address succeeds and its row is there; a request that finds its address
\* taken gets 400 'Host already exists'; a duplicate never gives a server
\* fault (a 500 comes from the store's own error only); and of the requests
\* for an address that is no default host, exactly one succeeds once any of
\* them got to its INSERT without such an error.
C8_MutationsSerialized ==
    /\ \A i, j \in 1..Len(monitored_hosts) :
           monitored_hosts[i].host = monitored_hosts[j].host => i = j
    /\ \A a \in AddIds :
           AddPassed(a) =>
               /\ adds[a].status \in {200, 400, 500}
               /\ adds[a].status = 500 => adds[a].exc = "OperationalError"
               /\ adds[a].status = 400 =>
                      /\ adds[a].error = Some("Host already exists")
                      /\ Cardinality(RowsWithHost(adds[a].host)) = 1
               /\ adds[a].status = 200 =>
                      /\ Cardinality(RowsWithHost(adds[a].host)) = 1
                      /\ \A i \in RowsWithHost(adds[a].host) :
                             monitored_hosts[i].display_name = adds[a].display_name
                      /\ \A a2 \in AddIds \ {a} :
                             (AddPassed(a2) /\ adds[a2].host = adds[a].host)
                                 => adds[a2].status # 200
               /\ (adds[a].status = 400
                      /\ \A k \in 1..Len(DEFAULT_HOSTS) :
                             DEFAULT_HOSTS[k] # adds[a].host) =>
                      \E a2 \in AddIds \ {a} :
                          /\ AddPassed(a2)
                          /\ adds[a2].host = adds[a].host
                          /\ adds[a2].status = 200

\* two requests for the same address, written differently: one succeeded, the
\* other was refused as a duplicate, and the address is there once
C8_Witness ==
    \E a1, a2 \in AddIds :
        /\ AddPassed(a1) /\ AddPassed(a2)
        /\ adds[a1].raw # adds[a2].raw
        /\ adds[a1].host = adds[a2].host
        /\ adds[a1].status = 200
        /\ adds[a2].status = 400
        /\ Cardinality(RowsWithHost(adds[a1].host)) = 1

----------------------------------------------------------------------------
(* Properties of background_monitor, checked under SpecMonitor *)

\* C5: the loop has no terminal state: whatever a cycle raises (the snapshot
\* failing, the history append failing), the loop is never left, a cycle that
\* raised is followed by the start of another, and cycles start for ever.
C5_LoopNeverEnds ==
    /\ [](sched.pc # "terminated")
    /\ (sched.pc = "sleep" /\ sched.exc # "-") ~> (sched.pc = "get_hosts")
    /\ []<>(sched.pc = "get_hosts")

\* a cycle starts after a cycle that raised
C5_Witness ==
    /\ sched.pc = "get_hosts"
    /\ sched.slept = SleepAfterError

\* C6: the wait before the next cycle is 60 s exactly when the cycle that
\* just ended raised an exception and 300 s exactly when it went through all
\* its hosts - also when the cycle before it had raised.
C6_WaitMatchesCycle ==
    sched.pc = "sleep" =>
        /\ sched.wait \in {60, 300}
        /\ sched.wait = 60 <=> sched.exc # "-"
        /\ sched.wait = 300 <=>
               (sched.exc = "-" /\ sched.hosts # <<>> /\ sched.i = Len(sched.hosts) + 1)

\* a cycle that went through all its hosts, after one that raised: the wait
\* is back to 300 s
C6_Witness ==
    /\ sched.pc = "sleep"
    /\ sched.slept = 60
    /\ sched.exc = "-"
    /\ sched.wait = 300

----------------------------------------------------------------------------
(* Properties of get_monitored_hosts and add_default_hosts, checked under
   SpecSeeding *)

DefaultsOnce(rows) ==
    \A k \in 1..Len(DEFAULT_HOSTS) :
        Cardinality({i \in 1..Len(rows) : rows[i].host = DEFAULT_HOSTS[k]}) = 1

DefaultsAtMostOnce(rows) ==
    \A k \in 1..Len(DEFAULT_HOSTS) :
        Cardinality({i \in 1..Len(rows) : rows[i].host = DEFAULT_HOSTS[k]}) <= 1

\* a caller of get_monitored_hosts comes back from add_default_hosts
SeedReturns ==
    \/ \E b \in Batches : batch[b].pc = "seed" /\ batch'[b].pc = "loop"
    \/ sched.pc = "seed" /\ sched'.pc = "loop"

\* a caller's SELECT sends it to add_default_hosts
SelectLeadsToSeed ==
    \/ \E b \in Batches : batch[b].pc = "idle" /\ batch'[b].pc = "seed"
    \/ sched.pc = "get_hosts" /\ sched'.pc = "seed"

\* C11: seeding is idempotent under concurrent first access: whatever the
\* callers of get_monitored_hosts (requests and the monitoring thread) do
\* side by side, no default host is ever in the registry twice; when a call
\* comes back from add_default_hosts the registry holds each default exactly
\* once; an add_default_hosts that finds every default there changes nothing
\* (so the rows are written once); and a call whose SELECT finds a row never
\* goes on to seed.
C11_SeedingIdempotent ==
    [][ /\ DefaultsAtMostOnce(monitored_hosts')
        /\ SeedReturns => DefaultsOnce(monitored_hosts')
        /\ (SeedReturns /\ DefaultsOnce(monitored_hosts))
               => monitored_hosts' = monitored_hosts
        /\ SelectLeadsToSeed => monitored_hosts = <<>>
      ]_vars

\* two callers found the registry empty; the request has seeded it, the
\* monitoring thread is still to run add_default_hosts over the seeded table
C11_Witness ==
    /\ sched.pc = "seed"
    /\ \E b \in Batches : batch[b].pc = "loop" /\ batch[b].hosts = DefaultSnapshot
    /\ DefaultsOnce(monitored_hosts)
    /\ Len(monitored_hosts) >= NumDefaults

----------------------------------------------------------------------------
(* Properties of the normalisation of a host, checked under SpecNormalize *)

\* C13: normalising is idempotent: for every input string, what
\* api_add_host's normalisation (trim, then https:// in front unless the
\* string starts with http:// or https://) makes of its own result is that
\* result again, and the same holds of check_host_health's normalisation
\* (https:// in front unless the string starts with http:// or https://).
C13_NormalizeIdempotent ==
    norm.pc = "twice" =>
        /\ norm.add_again = norm.add
        /\ norm.check_again = norm.check

\* a padded string without a protocol: both normalisations changed it, each
\* in its own way, and the second pass changed nothing
C13_Witness ==
    /\ norm.pc = "twice"
    /\ norm.add # None
    /\ norm.add[1] # norm.x
    /\ norm.check[1] # norm.x
    /\ norm.add # norm.check
    /\ norm.add_again = norm.add
    /\ norm.check_again = norm.check

----------------------------------------------------------------------------
(* Properties of api_stats, checked under SpecStats *)

\* the rows of the last 24 hours, and what the claim counts in them
StatsWindow == { i \in 1..Len(health_checks) : health_checks[i].age <= 24 }
TotalCount == Cardinality(StatsWindow)
OnlineCount ==
    Cardinality({ i \in StatsWindow : health_checks[i].status = "online" })
TimedRows == { i \in StatsWindow : health_checks[i].response_time # None }

RECURSIVE TimeSum(_)
TimeSum(S) ==
    IF S = {} THEN 0
    ELSE LET i == CHOOSE j \in S : TRUE
         IN  health_checks[i].response_time[1] + TimeSum(S \ {i})

StatsReturned == stats.pc = "returned" /\ ~stats.out.raised
StatsOut == stats.out.value[1]
Distance(a, b) == IF a >= b THEN a - b ELSE b - a

\* C12 as stated: the aggregate raises nothing of its own, uptime_percentage
\* is 100 * onlineCount / totalCount when totalCount > 0 and 0 when it is 0,
\* and average_response_time is the mean of the response times of the window
\* and 0 when the window has none (values in hundredths).
C12_ExactQuotients ==
    stats.pc = "returned" =>
        /\ stats.out.raised => stats.out.exc = "OperationalError"
        /\ StatsReturned =>
             /\ StatsOut.total_checks = TotalCount
             /\ TotalCount > 0 =>
                    StatsOut.uptime_percentage * TotalCount = 100 * 100 * OnlineCount
             /\ TotalCount = 0 => StatsOut.uptime_percentage = 0
             /\ TimedRows # {} =>
                    StatsOut.average_response_time * Cardinality(TimedRows)
                        = TimeSum(TimedRows)
             /\ TimedRows = {} => StatsOut.average_response_time = 0

\* C12, amended: the aggregate raises nothing of its own; uptime_percentage
\* is 100 * onlineCount / totalCount rounded to two decimals when
\* totalCount > 0 and 0 when it is 0; average_response_time is the mean of
\* the response times of the window rounded to two decimals, and 0 when the
\* window has none (values in hundredths: at most half a hundredth off).
C12_RoundedQuotients ==
    stats.pc = "returned" =>
        /\ stats.out.raised => stats.out.exc = "OperationalError"
        /\ StatsReturned =>
             /\ StatsOut.total_checks = TotalCount
             /\ TotalCount > 0 =>
                    2 * Distance(StatsOut.uptime_percentage * TotalCount,
                                 100 * 100 * OnlineCount) <= TotalCount
             /\ TotalCount = 0 => StatsOut.uptime_percentage = 0
             /\ TimedRows # {} =>
                    2 * Distance(StatsOut.average_response_time * Cardinality(TimedRows),
                                 TimeSum(TimedRows)) <= Cardinality(TimedRows)
             /\ TimedRows = {} => StatsOut.average_response_time = 0

\* a table with a row older than 24 hours, and in the window one row online
\* of two, their mean response time halfway between two hundredths
C12_Witness ==
    /\ StatsReturned
    /\ TotalCount < Len(health_checks)
    /\ TotalCount = 2
    /\ OnlineCount = 1
    /\ StatsOut.uptime_percentage = 5000
    /\ Cardinality(TimedRows) = 2
    /\ TimeSum(TimedRows) % 2 = 1

----------------------------------------------------------------------------
(* The order of saving and reporting in api_health_check, checked under
   SpecBatch *)

\* the row of health_checks an entry of results was saved as
RowOf(result) == InsertHealthCheck(<<>>, result)[1]

\* the rows of health_checks equal to `row`, and the entries of all results
\* lists saved as `row`
RowsEqual(row) == { j \in 1..Len(health_checks) : health_checks[j] = row }
EntriesEqual(row) ==
    { <<b, i>> \in Batches \X (1..(NumDefaults + NumAdds)) :
          i <= Len(batch[b].results) /\ RowOf(batch[b].results[i]) = row }

\* C15: in a health-check request every outcome is saved before it is
\* reported: at every point - also after the request has failed - each entry
\* of each results list has a row of its own in health_checks, and a request
\* has answered only when every host of its snapshot has been probed and
\* saved, none pending.
C15_SavedBeforeReported ==
    \A b \in Batches :
        LET r == batch[b]
        IN  /\ \A i \in 1..Len(r.results) :
                   Cardinality(EntriesEqual(RowOf(r.results[i])))
                       <= Cardinality(RowsEqual(RowOf(r.results[i])))
            /\ Len(r.results) <= Len(r.hosts)
            /\ r.pc = "responded" =>
                   /\ Len(r.results) = Len(r.hosts)
                   /\ Len(r.nets) = Len(r.hosts)
                   /\ r.result = None
                   /\ Len(health_checks) >= Len(r.hosts)

\* in the middle of a request: the first host is saved and in results, the
\* second is probed and not saved yet
C15_Witness ==
    \E b \in Batches :
        /\ batch[b].pc = "save"
        /\ Len(batch[b].results) = 1
        /\ batch[b].result # None
        /\ RowsEqual(RowOf(batch[b].results[1])) # {}

----------------------------------------------------------------------------
(* What api_add_host changes, checked under SpecRegistry *)

\* the step in which request a is answered
AddAnswers(a) == adds[a].pc # "done" /\ adds'[a].pc = "done"

\* C17: an add-host request whose host is empty or only whitespace is
\* answered 400, and one whose address is already registered is answered 400
\* (or 500 when the store itself fails); every request that is not answered
\* 200 leaves monitored_hosts and health_checks as they were; a request
\* answered 200 has appended exactly one row - the trimmed host, with
\* https:// in front unless it starts with http:// or https://, and as
\* display name the one given or else the address's network location - and
\* left every other row and health_checks as they were.
C17_AddHostFrame ==
    [][ \A a \in AddIds :
          AddAnswers(a) =>
            LET r == adds'[a]
                t == Strip(r.raw)
                address == IF StartsWith(t, HTTP) \/ StartsWith(t, HTTPS)
                           THEN t ELSE HTTPS \o t
                name == IF r.name = None THEN Some(Netloc(address)) ELSE r.name
            IN  /\ r.status \in {200, 400, 500}
                /\ t = <<>> =>
                       r.status = 400 /\ r.error = Some("Host is required")
                /\ (t # <<>> /\ RowsWithHost(address) # {}) =>
                       \/ r.status = 400 /\ r.error = Some("Host already exists")
                       \/ r.status = 500 /\ r.exc = "OperationalError"
                /\ r.status # 200 =>
                       /\ monitored_hosts' = monitored_hosts
                       /\ health_checks' = health_checks
                /\ r.status = 200 =>
                       /\ monitored_hosts' =
                              Append(monitored_hosts,
                                     [host |-> address, display_name |-> name,
                                      is_active |-> 1])
                       /\ health_checks' = health_checks
      ]_vars

\* beside the seeded defaults: a request with an empty host was refused, and
\* a padded host without protocol was added as the last row, trimmed, with
\* https:// and its domain as display name
C17_Witness ==
    \E a1, a2 \in AddIds :
        /\ AddDone(a1) /\ adds[a1].status = 200
        /\ adds[a1].name = None
        /\ adds[a1].raw # Strip(adds[a1].raw)
        /\ AddDone(a2) /\ adds[a2].status = 400
        /\ adds[a2].error = Some("Host is required")
        /\ Len(monitored_hosts) = NumDefaults + 1
        /\ monitored_hosts[Len(monitored_hosts)] =
               HostRow(HTTPS \o Strip(adds[a1].raw), Some(Strip(adds[a1].raw)))

----------------------------------------------------------------------------
(* Properties of monitored_hosts and health_checks together, checked under
   SpecSystem *)

\* C16: whatever add-host requests, seeding, health-check requests and
\* cycles of the monitoring thread have run, the host of every row of
\* health_checks is the address of a row of monitored_hosts: the probe's
\* protocol defaulting leaves a registered address as it is.
C16_HistoryKeysRegistered ==
    \A j \in 1..Len(health_checks) :
        RowsWithHost(health_checks[j].host) # {}

\* rows of a seeded default and of a host added by a request are both in
\* health_checks
C16_Witness ==
    /\ \E j \in 1..Len(health_checks) : health_checks[j].host = HTTPS \o EXAMPLE
    /\ \E j \in 1..Len(health_checks) : health_checks[j].host = DEFAULT_HOSTS[1]
    /\ Len(monitored_hosts) = NumDefaults + 1

----------------------------------------------------------------------------
(* The order of the rows of one host, checked under SpecOrder *)

\* worker p's row is appended to health_checks in this step
RowLands(p) ==
    /\ Pending(p)
    /\ ~Pending(p)'
    /\ Len(health_checks') = Len(health_checks) + 1

\* C14: the rows of a host are in health_checks in the order in which its
\* probes completed, whatever the interleaving of the workers that probe it:
\* no row is appended for a probe after the row of a probe of the same host
\* that completed later.
C14_RowsInCompletionOrder ==
    [][ \A p \in Workers : RowLands(p) => p \notin order.overtaken ]_vars

----------------------------------------------------------------------------
(* The snapshot of each cycle of background_monitor, checked under
   SpecFresh *)

\* the thread enters the for loop of a cycle
NewCycle == sched.pc \notin {"loop", "save"} /\ sched'.pc = "loop"

\* every cycle goes over the registry as it is when the cycle reads it (or
\* over the defaults it has just seeded)
FreshSnapshot ==
    [][ NewCycle => sched'.hosts \in {SelectActive(monitored_hosts'), DefaultSnapshot}
      ]_vars

\* example.com is registered while the thread runs; a row of it is among the
\* newest rows of health_checks
AddedWhileRunning == sched.pc # "off" /\ RowsWithHost(HTTPS \o EXAMPLE) # {}
OutcomeStored ==
    \E j \in 1..Len(health_checks) : health_checks[j].host = HTTPS \o EXAMPLE

\* a step of the thread that raises nothing
NoFault == sched'.exc = "-"

\* no operation on the store keeps failing: the SELECT, the seeding, and
\* the save of the k-th host of a cycle each succeed again and again when
\* they are tried again and again
StoreRecovers ==
    /\ SF_vars(SchedGetHosts /\ NoFault)
    /\ SF_vars(SchedSeed /\ NoFault)
    /\ \A k \in 1..(NumDefaults + 1) :
           SF_vars(SchedSaveRecent /\ NoFault /\ sched.i = k)

====
